---- MODULE Spec2Model ----
(***************************************************************************)
(* Model of integrate_shipbreaking.py: the alias resolution and            *)
(* unification of one yearly table (pick_col, unify_one), the LDT ~ GT     *)
(* regression and the three-tier imputation (train_ldt_model,              *)
(* impute_missing_ldt), and main's load / concatenate / impute / drop /    *)
(* deduplicate / sort pipeline.                                            *)
(*                                                                         *)
(* Representation.  A text is a sequence of one-character strings.  An     *)
(* optional value is a sequence: <<>> is the missing value (NaN, pd.NA,    *)
(* None), <<t>> a present text t, <<n, d>> a present float n/d in lowest   *)
(* terms with d > 0, <<n>> a present Int64.  The floats of the program are *)
(* modelled by exact rationals.                                            *)
(***************************************************************************)
EXTENDS Integers, Sequences, FiniteSets, TLC

VARIABLES
  pc,        \* position of the run
  sources,   \* what lies at each path of FILES: absent, unparseable, or a raw table
  k,         \* number of FILES entries the loop of main has visited
  frames,    \* main's list `frames`
  comb,      \* comb_files after pd.concat, the argument of train / impute
  model,     \* the value returned by train_ldt_model
  imputed,   \* comb_files as returned by impute_missing_ldt
  final,     \* comb_files after dropna, drop_duplicates and sort_values
  raw,       \* the table read by pd.read_csv inside unify_one
  unified,   \* what unify_one does with raw: an exception or the frame returned
  outcome    \* how the run ended: "running", "done", "SystemExit" or an exception

vars == <<pc, sources, k, frames, comb, model, imputed, final, raw, unified, outcome>>

(***************************************************************************)
(* Characters and texts                                                    *)
(***************************************************************************)
\* The ASCII characters 32..95 and 97..126, in code order.
PrintableLow ==
  << " ", "!", "\"", "#", "$", "%", "&", "'", "(", ")", "*", "+", ",", "-", ".", "/",
     "0", "1", "2", "3", "4", "5", "6", "7", "8", "9", ":", ";", "<", "=", ">", "?",
     "@", "A", "B", "C", "D", "E", "F", "G", "H", "I", "J", "K", "L", "M", "N", "O",
     "P", "Q", "R", "S", "T", "U", "V", "W", "X", "Y", "Z", "[", "\\", "]", "^", "_" >>

PrintableHigh ==
  << "a", "b", "c", "d", "e", "f", "g", "h", "i", "j", "k", "l", "m", "n", "o", "p",
     "q", "r", "s", "t", "u", "v", "w", "x", "y", "z", "{", "|", "}", "~" >>

Tab == "\t"

Chars ==
  {PrintableLow[i] : i \in DOMAIN PrintableLow}
    \cup {PrintableHigh[i] : i \in DOMAIN PrintableHigh} \cup {Tab}

\* ord(c): the ASCII code of a character.
CodeOf ==
  [c \in Chars |->
     IF c = Tab THEN 9
     ELSE IF \E i \in DOMAIN PrintableLow : PrintableLow[i] = c
          THEN 31 + (CHOOSE i \in DOMAIN PrintableLow : PrintableLow[i] = c)
          ELSE 96 + (CHOOSE i \in DOMAIN PrintableHigh : PrintableHigh[i] = c)]

\* The upper-case form of each lower-case ASCII letter, and the reverse.
UpperOf ==
  [ a |-> "A", b |-> "B", c |-> "C", d |-> "D", e |-> "E", f |-> "F", g |-> "G", h |->
     "H", i |-> "I", j |-> "J", k |-> "K", l |-> "L", m |-> "M", n |-> "N", o |-> "O", p
     |-> "P", q |-> "Q", r |-> "R", s |-> "S", t |-> "T", u |-> "U", v |-> "V", w |->
     "W", x |-> "X", y |-> "Y", z |-> "Z" ]

LowerOf ==
  [ A |-> "a", B |-> "b", C |-> "c", D |-> "d", E |-> "e", F |-> "f", G |-> "g", H |->
     "h", I |-> "i", J |-> "j", K |-> "k", L |-> "l", M |-> "m", N |-> "n", O |-> "o", P
     |-> "p", Q |-> "q", R |-> "r", S |-> "s", T |-> "t", U |-> "u", V |-> "v", W |->
     "w", X |-> "x", Y |-> "y", Z |-> "z" ]

upper_char(c) == IF c \in DOMAIN UpperOf THEN UpperOf[c] ELSE c

lower_char(c) == IF c \in DOMAIN LowerOf THEN LowerOf[c] ELSE c

\* The characters of a text as a list value.
Text(s) == SubSeq(s, 1, Len(s))

\* str.upper() and str.lower() on ASCII text.
str_upper(s) == Text([i \in DOMAIN s |-> upper_char(s[i])])

str_lower(s) == Text([i \in DOMAIN s |-> lower_char(s[i])])

isspace(c) == c \in {" ", Tab}

SetMin(S) == CHOOSE x \in S : \A y \in S : x <= y

SetMax(S) == CHOOSE x \in S : \A y \in S : y <= x

\* str.strip(): leading and trailing whitespace removed, inner whitespace kept.
str_strip(s) ==
  LET solid == {i \in DOMAIN s : ~isspace(s[i])}
  IN  IF solid = {} THEN <<>> ELSE SubSeq(s, SetMin(solid), SetMax(solid))

NotComma(c) == c # ","

\* str.replace(",", "")
str_replace_comma(s) == SelectSeq(s, NotComma)

\* Python's < on str: lexicographic by code point, a proper prefix first.
RECURSIVE str_lt(_, _)
str_lt(a, b) ==
  IF b = <<>> THEN FALSE
  ELSE IF a = <<>> THEN TRUE
  ELSE IF a[1] # b[1] THEN CodeOf[a[1]] < CodeOf[b[1]]
  ELSE str_lt(Tail(a), Tail(b))

(***************************************************************************)
(* Missing values and floats                                               *)
(***************************************************************************)
NA == <<>>

isna(v) == v = NA

notna(v) == v # NA

Abs(n) == IF n < 0 THEN -n ELSE n

RECURSIVE GCD(_, _)
GCD(a, b) == IF b = 0 THEN a ELSE GCD(b, a % b)

\* The finite float n/d, in lowest terms with a positive denominator.
Rat(n, d) ==
  LET g == GCD(Abs(n), Abs(d))
      s == IF d < 0 THEN -1 ELSE 1
  IN  <<(s * n) \div g, (s * d) \div g>>

Num(n) == <<n, 1>>

\* Sums, products and comparisons cancel common factors before multiplying.
RAdd(a, b) ==
  LET g == GCD(a[2], b[2])
  IN  Rat(a[1] * (b[2] \div g) + b[1] * (a[2] \div g), (a[2] \div g) * b[2])

RNeg(a) == <<-a[1], a[2]>>

RSub(a, b) == RAdd(a, RNeg(b))

RMul(a, b) ==
  LET g == GCD(Abs(a[1]), b[2])
      h == GCD(Abs(b[1]), a[2])
  IN  Rat((a[1] \div g) * (b[1] \div h), (a[2] \div h) * (b[2] \div g))

RDiv(a, b) == RMul(a, Rat(b[2], b[1]))

\* The floats inf and -inf.
Inf == <<1, 0>>

NegInf == <<-1, 0>>

IsFinite(a) == a[2] # 0

\* -1 for -inf, 0 for a finite float, 1 for inf.
InfRank(a) == IF IsFinite(a) THEN 0 ELSE a[1]

RLt(a, b) ==
  IF ~IsFinite(a) \/ ~IsFinite(b) THEN InfRank(a) < InfRank(b)
  ELSE IF a[2] = b[2] THEN a[1] < b[1]
  ELSE LET g == GCD(a[2], b[2])
       IN  a[1] * (b[2] \div g) < b[1] * (a[2] \div g)

RLe(a, b) == ~RLt(b, a)

IsWhole(a) == a[2] = 1

(***************************************************************************)
(* Configuration                                                           *)
(***************************************************************************)
FILES == <<2014, 2016, 2020, 2023, 2024>>

GOLD_SCHEMA ==
  <<"YEAR", "IMO", "NAME", "TYPE", "GT", "LDT", "BUILT", "LAST FLAG", "PLACE", "COUNTRY">>

GoldFields == {GOLD_SCHEMA[i] : i \in DOMAIN GOLD_SCHEMA}

NumericFields == {"GT", "LDT", "BUILT", "YEAR"}

StringFields == {"IMO", "NAME", "TYPE", "LAST FLAG", "PLACE", "COUNTRY"}

BuiltMin == 1900

BuiltMax == 2035

MinTrain == 30

ALIAS ==
  [tgt \in {"IMO", "NAME", "TYPE", "GT", "LDT", "BUILT", "LAST FLAG", "PLACE", "COUNTRY", "YEAR"} |->
    CASE tgt = "IMO" ->
           << <<"I","M","O">>,
              <<"I","M","O"," ","N","U","M","B","E","R">>,
              <<"I","M","O","#">>,
              <<"I","M","O"," ","N","O">>,
              <<"I","M","O"," ","N","O",".">> >>
      [] tgt = "NAME" ->
           << <<"N","A","M","E">>,
              <<"N","A","M","E"," ","O","F"," ","S","H","I","P">>,
              <<"V","E","S","S","E","L">>,
              <<"V","E","S","S","E","L"," ","N","A","M","E">> >>
      [] tgt = "TYPE" ->
           << <<"T","Y","P","E">>,
              <<"T","Y","P","E"," ","O","F"," ","S","H","I","P">>,
              <<"S","H","I","P"," ","T","Y","P","E">>,
              <<"T","Y","P","E"," ","O","F"," ","V","E","S","S","E","L">> >>
      [] tgt = "GT" ->
           << <<"G","T">>,
              <<"G","R","O","S","S"," ","T","O","N","N","A","G","E">>,
              <<"G","R","O","S","S"," ","T","O","N","N","A","G","E"," ","(","G","T",")">>,
              <<"G","R","O","S","S"," ","T","O","N","N","A","G","E",","," ","G","T">> >>
      [] tgt = "LDT" ->
           << <<"L","D","T">>,
              <<"L","I","G","H","T"," ","D","I","S","P","L","A","C","E","M","E","N","T"," ","T","O","N","N","A","G","E">>,
              <<"L","I","G","H","T","W","E","I","G","H","T">>,
              <<"L","I","G","H","T"," ","W","E","I","G","H","T">> >>
      [] tgt = "BUILT" ->
           << <<"B","U","I","L","T">>,
              <<"B","U","I","L","T"," ","I","N"," ","(","Y",")">>,
              <<"Y","E","A","R"," ","B","U","I","L","T">>,
              <<"B","U","I","L","D"," ","Y","E","A","R">> >>
      [] tgt = "LAST FLAG" ->
           << <<"L","A","S","T"," ","F","L","A","G">>,
              <<"F","L","A","G">>,
              <<"C","H","A","N","G","E"," ","O","F"," ","F","L","A","G"," ","F","O","R"," ","B","R","E","A","K","I","N","G">>,
              <<"F","L","A","G"," ","C","H","A","N","G","E","D"," ","F","O","R"," ","B","R","E","A","K","I","N","G">> >>
      [] tgt = "PLACE" ->
           << <<"P","L","A","C","E">>,
              <<"D","E","S","T","I","N","A","T","I","O","N"," ","C","I","T","Y">>,
              <<"P","L","A","C","E"," ","O","F"," ","D","E","M","O","L","I","T","I","O","N">>,
              <<"L","O","C","A","T","I","O","N">> >>
      [] tgt = "COUNTRY" ->
           << <<"C","O","U","N","T","R","Y">>,
              <<"D","E","S","T","I","N","A","T","I","O","N"," ","C","O","U","N","T","R","Y">>,
              <<"C","O","U","N","T","R","Y"," ","O","F"," ","D","E","M","O","L","I","T","I","O","N">> >>
      [] tgt = "YEAR" ->
           << <<"Y","E","A","R">> >> ]

(***************************************************************************)
(* pick_col                                                                *)
(***************************************************************************)
\* lower_map = {c.lower(): c for c in df.columns}: a later column replaces an
\* earlier one under the same lowered name.
lower_map(columns) ==
  LET lowered == Text([i \in DOMAIN columns |-> str_lower(columns[i])])
  IN  [key \in {lowered[i] : i \in DOMAIN columns} |->
         columns[SetMax({i \in DOMAIN columns : lowered[i] = key})]]

RECURSIVE pick_from(_, _, _)
pick_from(lmap, candidates, j) ==
  IF j > Len(candidates) THEN NA
  ELSE IF str_lower(candidates[j]) \in DOMAIN lmap
       THEN <<lmap[str_lower(candidates[j])]>>
       ELSE pick_from(lmap, candidates, j + 1)

\* pick_col with the candidates tried from the last to the first.
RECURSIVE pick_from_last(_, _, _)
pick_from_last(lmap, candidates, j) ==
  IF j < 1 THEN NA
  ELSE IF str_lower(candidates[j]) \in DOMAIN lmap
       THEN <<lmap[str_lower(candidates[j])]>>
       ELSE pick_from_last(lmap, candidates, j - 1)

pick_col_last(columns, candidates) ==
  pick_from_last(lower_map(columns), candidates, Len(candidates))

\* The column named by the first candidate that matches case-insensitively, or
\* NA for Python's None.
pick_col(columns, candidates) == pick_from(lower_map(columns), candidates, 1)

(***************************************************************************)
(* unify_one                                                               *)
(***************************************************************************)
IsDigit(c) == c \in {"0", "1", "2", "3", "4", "5", "6", "7", "8", "9"}

RECURSIVE digits_value(_)
digits_value(s) ==
  IF s = <<>> THEN 0
  ELSE 10 * digits_value(SubSeq(s, 1, Len(s) - 1)) + (CodeOf[s[Len(s)]] - 48)

RECURSIVE Pow10(_)
Pow10(n) == IF n = 0 THEN 1 ELSE 10 * Pow10(n - 1)

\* The last index of the run of whitespace that starts at index i of s, i - 1
\* when there is none.
space_end(s, i) ==
  SetMax({j \in (i - 1)..Len(s) : \A n \in i..j : isspace(s[n])})

\* The last index of the run of digits that starts at index i of s.
digits_end(s, i) ==
  SetMax({j \in (i - 1)..Len(s) : \A n \in i..j : IsDigit(s[n])})

\* The texts the parser accepts for the infinities when the number grammar
\* fails: inf and infinity, signed or not, in any case, with nothing around.
infinity_text(text) ==
  LET low == str_lower(text)
  IN  IF low \in { <<"i", "n", "f">>, <<"+", "i", "n", "f">>,
                   <<"i", "n", "f", "i", "n", "i", "t", "y">>,
                   <<"+", "i", "n", "f", "i", "n", "i", "t", "y">> }
      THEN Inf
      ELSE IF low \in { <<"-", "i", "n", "f">>,
                        <<"-", "i", "n", "f", "i", "n", "i", "t", "y">> }
      THEN NegInf
      ELSE NA

\* The float a sign, a mantissa and a decimal exponent denote.  The value is
\* exact: mantissas are shorter than the 17 digits the parser keeps.
float_value(negative, mantissa, exponent) ==
  LET v == IF exponent >= 0 THEN Rat(mantissa * Pow10(exponent), 1)
           ELSE Rat(mantissa, Pow10(-exponent))
  IN  IF negative THEN RNeg(v) ELSE v

\* The end of the scan.  digits: the digits of the mantissa, nfrac of them after
\* the point; edigits: the digits of the exponent that starts at index f, none
\* when the mantissa ends the number at index d (an e with no digit after it is
\* not consumed).  Trailing whitespace is skipped and nothing may follow; a
\* decimal exponent above 308 is out of range.  A text that fails is a float
\* only when it spells an infinity.
parse_tail(s, negative, digits, nfrac, eneg, edigits, d, f) ==
  LET h        == IF edigits # <<>> THEN f + Len(edigits) - 1 ELSE d
      exponent == (IF eneg THEN -digits_value(edigits) ELSE digits_value(edigits))
                  - nfrac
  IN  IF digits # <<>> /\ space_end(s, h + 1) = Len(s) /\ exponent <= 308
      THEN float_value(negative, digits_value(digits), exponent)
      ELSE infinity_text(s)

\* The optional exponent after the mantissa, which ends at index d: e or E, an
\* optional sign, digits.
parse_exponent(s, negative, whole, frac, d) ==
  LET hasE    == d + 1 <= Len(s) /\ s[d + 1] \in {"e", "E"}
      esigned == hasE /\ d + 2 <= Len(s) /\ s[d + 2] \in {"+", "-"}
      f       == IF esigned THEN d + 3 ELSE d + 2
  IN  parse_tail(s, negative, whole \o frac, Len(frac),
                 esigned /\ s[d + 2] = "-",
                 IF hasE THEN SubSeq(s, f, digits_end(s, f)) ELSE <<>>, d, f)

\* The optional point and digits after the whole digits, which end at index c.
parse_fraction(s, negative, whole, c) ==
  LET pointed == c + 1 <= Len(s) /\ s[c + 1] = "."
      d       == IF pointed THEN digits_end(s, c + 2) ELSE c
  IN  parse_exponent(s, negative, whole, SubSeq(s, c + 2, d), d)

\* The whole digits, from index b.
parse_whole(s, negative, b) ==
  parse_fraction(s, negative, SubSeq(s, b, digits_end(s, b)), digits_end(s, b))

\* The optional sign at index a.
parse_sign(s, a) ==
  parse_whole(s, a <= Len(s) /\ s[a] = "-",
              IF a <= Len(s) /\ s[a] \in {"+", "-"} THEN a + 1 ELSE a)

\* The float a text denotes for pd.to_numeric, NA (NaN) when it denotes none.
\* The grammar is that of the parser of pandas: leading whitespace, an optional
\* sign, digits, an optional point and digits (one digit at least in all), an
\* optional exponent, trailing whitespace, and nothing else.
parse_float(text) == parse_sign(text, space_end(text, 1) + 1)

\* out[c].astype(str): a missing cell becomes the text "nan".
astype_str(cell) == IF isna(cell) THEN <<"n", "a", "n">> ELSE cell[1]

\* pd.to_numeric(out[c].astype(str).str.replace(",", ""), errors="coerce")
to_numeric(cell) == parse_float(str_replace_comma(astype_str(cell)))

\* out[c].astype("string").str.strip()
strip_cell(cell) == IF isna(cell) THEN NA ELSE <<str_strip(cell[1])>>

\* The validity rule with < in place of <=: a zero survives.
positive_or_nan_strict(v) == IF notna(v) /\ RLt(v, Num(0)) THEN NA ELSE v

\* out.loc[out[c].notna() & (out[c] <= 0), c] = np.nan
positive_or_nan(v) == IF notna(v) /\ RLe(v, Num(0)) THEN NA ELSE v

\* out["BUILT"].where(out["BUILT"].between(1900, 2035), pd.NA)
built_where(v) ==
  IF notna(v) /\ RLe(Num(BuiltMin), v) /\ RLe(v, Num(BuiltMax)) THEN v ELSE NA

\* .astype("Int64") of one value: the cast exists only for a whole number.
to_Int64(v) == IF isna(v) THEN NA ELSE <<v[1]>>

\* The rows of a frame as a list value.
Frame(rows) == SubSeq(rows, 1, Len(rows))

Raised(err) == [error |-> err, rows |-> <<>>]

Returned(rows) == [error |-> "none", rows |-> rows]

\* The columns of the table after df.columns.astype(str).str.strip().str.upper().
RECURSIVE normalize_from(_, _)
normalize_from(headers, i) ==
  IF i > Len(headers) THEN <<>>
  ELSE <<str_upper(str_strip(headers[i]))>> \o normalize_from(headers, i + 1)

normalize_columns(table) == normalize_from(table.columns, 1)

\* The loop "for tgt in GOLD_SCHEMA: src = pick_col(df, ALIAS.get(tgt, []))": the
\* column picked for each gold field, in the order of GOLD_SCHEMA.
RECURSIVE pick_all(_, _)
pick_all(columns, j) ==
  IF j > Len(GOLD_SCHEMA) THEN <<>>
  ELSE <<pick_col(columns, ALIAS[GOLD_SCHEMA[j]])>> \o pick_all(columns, j + 1)

GoldIndex(tgt) == CHOOSE j \in DOMAIN GOLD_SCHEMA : GOLD_SCHEMA[j] = tgt

\* unify_one on the table pd.read_csv returned: the exception it raises, or the
\* frame with the ten gold columns.
unify_one(table) ==
  LET columns   == normalize_columns(table)
      picked    == pick_all(columns, 1)
      src(tgt)  == picked[GoldIndex(tgt)]
      places(c) == {i \in DOMAIN columns : columns[i] = c}
      \* df[src] is a frame, not a column, when two headers normalize alike
      twofold   == {tgt \in GoldFields :
                      notna(src(tgt)) /\ Cardinality(places(src(tgt)[1])) > 1}
      \* the position in the table of the column picked for each gold field
      at        == Frame([j \in DOMAIN GOLD_SCHEMA |->
                            IF isna(picked[j]) THEN 0
                            ELSE CHOOSE i \in places(picked[j][1]) : TRUE])
      cell(tgt, r) ==
        IF at[GoldIndex(tgt)] = 0 THEN NA ELSE table.rows[r][at[GoldIndex(tgt)]]
      number(tgt, r) ==
        LET v == to_numeric(cell(tgt, r))
        IN  IF tgt \in {"GT", "LDT"} THEN positive_or_nan(v)
            ELSE IF tgt = "BUILT" THEN built_where(v)
            ELSE v
      row(r) ==
        [tgt \in GoldFields |->
           IF tgt \in StringFields THEN strip_cell(cell(tgt, r))
           ELSE IF tgt = "BUILT" THEN to_Int64(number(tgt, r))
           ELSE number(tgt, r)]
  IN  IF twofold # {} THEN Raised("ValueError")
      ELSE IF \E r \in DOMAIN table.rows :
                notna(number("BUILT", r)) /\ ~IsWhole(number("BUILT", r))
           THEN Raised("TypeError")
           ELSE Returned(Frame([r \in DOMAIN table.rows |-> row(r)]))

(***************************************************************************)
(* train_ldt_model                                                         *)
(***************************************************************************)
None == NA

\* The sum of a list of floats, by halves.
RECURSIVE RSum(_)
RSum(s) ==
  IF Len(s) = 0 THEN Num(0)
  ELSE IF Len(s) = 1 THEN s[1]
  ELSE LET h == Len(s) \div 2
       IN  RAdd(RSum(SubSeq(s, 1, h)), RSum(SubSeq(s, h + 1, Len(s))))

HasPair(r) ==
  /\ notna(r["GT"]) /\ notna(r["LDT"])
  /\ RLt(Num(0), r["GT"]) /\ RLt(Num(0), r["LDT"])

\* df.dropna(subset=["GT", "LDT"]) restricted to GT > 0 and LDT > 0.
train_rows(df) == SelectSeq(df, HasPair)

\* LinearRegression().fit(X, y) with one predictor: ordinary least squares; a
\* constant predictor gives coefficient 0 and the mean of y as intercept.
fit(train) ==
  LET n   == Num(Len(train))
      X   == [i \in DOMAIN train |-> train[i]["GT"]]
      y   == [i \in DOMAIN train |-> train[i]["LDT"]]
      Sx  == RSum(X)
      Sy  == RSum(y)
      Sxx == RSum([i \in DOMAIN train |-> RMul(X[i], X[i])])
      Sxy == RSum([i \in DOMAIN train |-> RMul(X[i], y[i])])
      den == RSub(RMul(n, Sxx), RMul(Sx, Sx))
      coef == IF den = Num(0) THEN Num(0)
              ELSE RDiv(RSub(RMul(n, Sxy), RMul(Sx, Sy)), den)
  IN  [coef |-> coef, intercept |-> RDiv(RSub(Sy, RMul(coef, Sx)), n)]

\* What train_ldt_model does: the exception it raises, or the value it returns
\* (None, or a one-element list holding the model).
TrainRaised(err) == [error |-> err, model |-> None]

TrainReturned(m) == [error |-> "none", model |-> m]

\* sklearn's input validation: fit and predict raise ValueError on an infinite
\* value.
all_finite(values) == \A i \in DOMAIN values : IsFinite(values[i])

train_ldt_model(df) ==
  LET train == train_rows(df)
  IN  IF Len(train) < MinTrain THEN TrainReturned(None)
      ELSE IF ~all_finite([i \in DOMAIN train |-> train[i]["GT"]])
              \/ ~all_finite([i \in DOMAIN train |-> train[i]["LDT"]])
           THEN TrainRaised("ValueError")
           ELSE TrainReturned(<<fit(train)>>)

(***************************************************************************)
(* impute_missing_ldt                                                      *)
(***************************************************************************)
predict(m, gt) == RAdd(RMul(m.coef, gt), m.intercept)

\* np.maximum(x, 0)
maximum0(x) == IF RLt(x, Num(0)) THEN Num(0) ELSE x

\* The present values in ascending order: each value goes to the place given by
\* the number of values that sort before it.
rsort(s) ==
  LET n == Len(s)
      before(i) == {j \in 1..n : RLt(s[j], s[i]) \/ (j < i /\ ~RLt(s[i], s[j]))}
      place == Frame([i \in 1..n |-> Cardinality(before(i)) + 1])
  IN  Frame([p \in 1..n |-> s[CHOOSE i \in 1..n : place[i] = p]])

\* The mean of two floats a <= b: an infinity wins, and -inf with inf is NaN.
mean2(a, b) ==
  IF IsFinite(a) /\ IsFinite(b) THEN RDiv(RAdd(a, b), Num(2))
  ELSE IF ~IsFinite(a) /\ ~IsFinite(b) /\ a # b THEN NA
  ELSE IF IsFinite(a) THEN b ELSE a

\* Series.median(): missing values skipped; NaN when nothing is present.
median(values) ==
  LET s == rsort(SelectSeq(Frame(values), notna))
      n == Len(s)
  IN  IF n = 0 THEN NA
      ELSE IF n % 2 = 1 THEN s[(n + 1) \div 2]
      ELSE mean2(s[n \div 2], s[n \div 2 + 1])

ldt_column(df) == [i \in DOMAIN df |-> df[i]["LDT"]]

\* out.groupby("TYPE")["LDT"].median(), looked up for one TYPE.
group_median(df, type) ==
  median([i \in DOMAIN df |-> IF df[i]["TYPE"] = type THEN df[i]["LDT"] ELSE NA])

set_ldt(r, v) == [r EXCEPT !["LDT"] = v]

\* The first tier without the test that LDT is missing: every record with a GT
\* gets the prediction.
regression_tier_overwrite(df, m) ==
  IF m = None THEN df
  ELSE Frame([i \in DOMAIN df |->
                IF notna(df[i]["GT"]) /\ IsFinite(df[i]["GT"])
                THEN set_ldt(df[i], maximum0(predict(m[1], df[i]["GT"])))
                ELSE df[i]])

\* First tier: the regression prediction, where a model exists.
regression_tier(df, m) ==
  IF m = None THEN df
  ELSE Frame([i \in DOMAIN df |->
                IF isna(df[i]["LDT"]) /\ notna(df[i]["GT"])
                THEN set_ldt(df[i], maximum0(predict(m[1], df[i]["GT"])))
                ELSE df[i]])

\* Second tier: the median of the record's TYPE.
type_median_tier(df) ==
  Frame([i \in DOMAIN df |->
           IF isna(df[i]["LDT"]) /\ notna(df[i]["TYPE"])
           THEN set_ldt(df[i], group_median(df, df[i]["TYPE"]))
           ELSE df[i]])

\* The third tier left out.
overall_median_tier_skip(df) == df

\* Third tier: out["LDT"].fillna(out["LDT"].median()).
overall_median_tier(df) ==
  LET median_val == median(ldt_column(df))
  IN  Frame([i \in DOMAIN df |->
               IF isna(df[i]["LDT"]) THEN set_ldt(df[i], median_val) ELSE df[i]])

\* req = out["LDT"].isna() & out["GT"].notna()
req(df) == {i \in DOMAIN df : isna(df[i]["LDT"]) /\ notna(df[i]["GT"])}

\* impute_missing_ldt: the exception it raises (model.predict on an infinite
\* GT), or the frame it returns.
impute_missing_ldt(df, m) ==
  IF m # None /\ \E i \in req(df) : ~IsFinite(df[i]["GT"])
  THEN Raised("ValueError")
  ELSE LET tier1 == regression_tier(df, m)
           tier2 == type_median_tier(tier1)
       IN  Returned(overall_median_tier(tier2))

(***************************************************************************)
(* main: the steps after imputation                                        *)
(***************************************************************************)
HasIMO(r) == notna(r["IMO"])

\* comb_files.dropna(subset=["IMO"])
dropna_imo(df) == SelectSeq(df, HasIMO)

same_key(a, b) ==
  a["IMO"] = b["IMO"] /\ a["NAME"] = b["NAME"] /\ a["YEAR"] = b["YEAR"]

first_of_key(df) ==
  {i \in DOMAIN df : \A j \in 1..(i - 1) : ~same_key(df[j], df[i])}

\* drop_duplicates keeping the last record of each key.
drop_duplicates_last(df) ==
  LET keep == {i \in DOMAIN df : \A j \in (i + 1)..Len(df) : ~same_key(df[j], df[i])}
      nth(p) == CHOOSE i \in keep : Cardinality({j \in keep : j <= i}) = p
  IN  Frame([p \in 1..Cardinality(keep) |-> df[nth(p)]])

\* comb_files.drop_duplicates(subset=["IMO", "NAME", "YEAR"], keep="first")
drop_duplicates(df) ==
  LET keep == first_of_key(df)
      nth(p) == CHOOSE i \in keep : Cardinality({j \in keep : j <= i}) = p
  IN  Frame([p \in 1..Cardinality(keep) |-> df[nth(p)]])

SORT_KEYS == <<"YEAR", "COUNTRY", "PLACE", "TYPE", "NAME">>

\* One sort key ascending, a missing value after every present one.
key_lt(f, a, b) ==
  IF isna(a[f]) THEN FALSE
  ELSE IF isna(b[f]) THEN TRUE
  ELSE IF f = "YEAR" THEN RLt(a[f], b[f])
  ELSE str_lt(a[f][1], b[f][1])

RECURSIVE keys_lt(_, _, _)
keys_lt(a, b, j) ==
  IF j > Len(SORT_KEYS) THEN FALSE
  ELSE IF key_lt(SORT_KEYS[j], a, b) THEN TRUE
  ELSE IF key_lt(SORT_KEYS[j], b, a) THEN FALSE
  ELSE keys_lt(a, b, j + 1)

row_lt(a, b) == keys_lt(a, b, 1)

\* A sort that is not stable: records with equal keys come out in reverse order.
sort_values_unstable(df) ==
  LET n == Len(df)
      before(i) == {j \in 1..n : row_lt(df[j], df[i]) \/ (j > i /\ ~row_lt(df[i], df[j]))}
      place == Frame([i \in 1..n |-> Cardinality(before(i)) + 1])
  IN  Frame([p \in 1..n |-> df[CHOOSE i \in 1..n : place[i] = p]])

\* comb_files.sort_values([...]).reset_index(drop=True): the lexicographic sort of
\* pandas keeps records with equal keys in their order.
\* A record goes to the place given by the number of records that sort before
\* it, a record with equal keys and a lower index counting as before.
sort_values(df) ==
  LET n == Len(df)
      before(i) == {j \in 1..n : row_lt(df[j], df[i]) \/ (j < i /\ ~row_lt(df[i], df[j]))}
      place == Frame([i \in 1..n |-> Cardinality(before(i)) + 1])
  IN  Frame([p \in 1..n |-> df[CHOOSE i \in 1..n : place[i] = p]])

\* Lines 149-154 of main.
finalize(df) == sort_values(drop_duplicates(dropna_imo(df)))

\* pd.concat(frames, ignore_index=True)
RECURSIVE concat(_)
concat(fs) == IF fs = <<>> THEN <<>> ELSE fs[1] \o concat(Tail(fs))

(***************************************************************************)
(* Inputs: raw tables for unify_one                                        *)
(***************************************************************************)
MaxRows == 1

\* Cells as pd.read_csv(dtype="unicode") returns them: missing, or a text.
YearCells ==
  { NA, << <<"1",",","5","1","0">> >>, << <<"a","b","c">> >>, << <<"1","9","9","0",".","5">> >>, << <<"1","9","0","0">> >>, << <<"2","0","3","6">> >>,
    << <<"1","9","e","2">> >>, << <<"1","9","9","0","5","e","-","1">> >>, << <<"i","n","f">> >> }

TonnageCells ==
  { NA, << <<"1",",","5","1","0">> >>, << <<"-","5">> >>, << <<"0">> >>, << <<"a","b","c">> >>, << <<"2",".","5","E","-","1">> >>,
    << <<"I","n","f","i","n","i","t","y">> >>, << <<"-","i","n","f">> >> }

TextCells == { NA, << <<" ","M","v"," ","A","l","p","h","a"," ">> >>, << <<"7">> >>, << <<>> >> }

\* Header rows as pd.read_csv returns them, before normalization, each with the
\* cells drawn under its columns.
HeaderRows ==
  { [columns |-> << <<"L","D","T">>, <<" ","b","u","i","l","t"," ","i","n"," ","(","y",")"," ">> >>, cells |-> <<TonnageCells, YearCells>>],
    [columns |-> << <<"G","r","o","s","s"," ","T","o","n","n","a","g","e">>, <<"G","T">> >>, cells |-> <<TonnageCells, TonnageCells>>],
    [columns |-> << <<"B","u","i","l","d"," ","Y","e","a","r">> >>, cells |-> <<YearCells>>],
    [columns |-> << <<"V","e","s","s","e","l"," ","N","a","m","e">>, <<"N","A","M","E"," ","O","F"," ","S","H","I","P">> >>, cells |-> <<TextCells, TextCells>>],
    [columns |-> << <<"N","a","m","e">>, <<"N","A","M","E">> >>, cells |-> <<TextCells, TextCells>>],
    [columns |-> << <<"v","e","s","s","e","l">>, <<"N","a","m","e"," ">> >>, cells |-> <<TextCells, TextCells>>],
    [columns |-> << <<"I","M","O","#">>, <<"S","h","i","p","_","N","a","m","e">> >>, cells |-> <<TextCells, TextCells>>] }

\* The rows that can stand under a header row.
RowsUnder(h) ==
  IF Len(h.columns) = 1 THEN { <<c>> : c \in h.cells[1] }
  ELSE { <<c, e>> : c \in h.cells[1], e \in h.cells[2] }

(***************************************************************************)
(* Inputs: aggregated frames for training and imputation                   *)
(***************************************************************************)
MaxFree == 2

gold(year, imo, name, type, gt, ldt) ==
  [f \in GoldFields |->
     CASE f = "YEAR" -> year
       [] f = "IMO"  -> imo
       [] f = "NAME" -> name
       [] f = "TYPE" -> type
       [] f = "GT"   -> gt
       [] f = "LDT"  -> ldt
       [] OTHER      -> NA]

TypeA == << <<"B","u","l","k","e","r">> >>

TypeB == << <<"T","a","n","k","e","r">> >>

TypeC == << <<"F","e","r","r","y">> >>

\* The blocks of complete records: their length and the shape of their values.
Bulks ==
  { [n |-> 0, shape |-> "falling_short"], [n |-> 29, shape |-> "falling_short"],
    [n |-> 30, shape |-> "falling_short"], [n |-> 30, shape |-> "scattered"] }

\* Row i of a block of complete records: GT cycles through 10, 20, 30; LDT is
\* GT - 5 in the first shape and 4, 9, 11 in the second.
BulkRow(i, shape) ==
  LET g == 10 * ((i % 3) + 1)
      l == IF shape = "falling_short" THEN g - 5
           ELSE IF g = 10 THEN 4 ELSE IF g = 20 THEN 9 ELSE 11
  IN  gold(Num(2014), << <<"9","0","0","0","0","0","1">> >>, << <<"A","l","p","h","a">> >>,
           IF i % 2 = 0 THEN TypeA ELSE TypeB, Num(g), Num(l))

\* Further records: TYPE, GT and LDT each present or missing, and records with
\* an infinite GT or LDT.
FreeRows ==
  ({ gold(Num(2016), << <<"9","0","0","0","0","0","2">> >>, << <<"B","e","t","a">> >>, t, g, l) :
       t \in {NA, TypeA, TypeC}, g \in {NA, Num(2)}, l \in {NA, Num(7)} }
   \ { gold(Num(2016), << <<"9","0","0","0","0","0","2">> >>, << <<"B","e","t","a">> >>, TypeA, NA, Num(7)),
       gold(Num(2016), << <<"9","0","0","0","0","0","2">> >>, << <<"B","e","t","a">> >>, TypeC, Num(2), Num(7)) })
  \cup { gold(Num(2016), << <<"9","0","0","0","0","0","2">> >>, << <<"B","e","t","a">> >>, NA, Inf, NA),
         gold(Num(2016), << <<"9","0","0","0","0","0","2">> >>, << <<"B","e","t","a">> >>, TypeA, Inf, Num(7)),
         gold(Num(2016), << <<"9","0","0","0","0","0","2">> >>, << <<"B","e","t","a">> >>, TypeC, NA, Inf) }

(***************************************************************************)
(* Inputs: imputed frames for the final steps of main                      *)
(***************************************************************************)
MaxRecs == 3

\* Records that differ in key and sort fields; LDT is set to the position of
\* the record so that equal keys still tell records apart.
KeyRows ==
  { gold(y, imo, name, NA, NA, NA) :
      y \in {NA, Num(2014)}, imo \in {NA, << <<"9","0","0","0","0","0","1">> >>, << <<"9","0","0","0","0","0","2">> >>},
      name \in {<< <<"A","l","p","h","a">> >>, << <<"b","e","t","a">> >>} }

(***************************************************************************)
(* Inputs: what lies at the paths of FILES                                 *)
(***************************************************************************)
NoTable == [columns |-> <<>>, rows |-> <<>>]

Absent == [kind |-> "absent", table |-> NoTable]

Unparseable == [kind |-> "unparseable", table |-> NoTable]

Parsed(t) == [kind |-> "table", table |-> t]

TableB ==
  [columns |-> << <<"I","M","O"," ","N","u","m","b","e","r">>, <<"V","e","s","s","e","l"," ","N","a","m","e">>, <<"S","h","i","p"," ","T","y","p","e">>, <<"G","r","o","s","s"," ","T","o","n","n","a","g","e">>,
                  <<"L","i","g","h","t","w","e","i","g","h","t">>, <<"Y","e","a","r"," ","B","u","i","l","t">>, <<"D","e","s","t","i","n","a","t","i","o","n"," ","C","o","u","n","t","r","y">>, <<"Y","E","A","R"," ">> >>,
   rows |->
     << << <<<<"9","0","0","0","0","0","1">>>>, <<<<"A","l","p","h","a">>>>, <<<<"B","u","l","k","e","r">>>>, <<<<"i","n","f">>>>, <<<<"1",",","4","0","0">>>>,
           <<<<"1","9","8","5">>>>, <<<<"T","u","r","k","e","y">>>>, <<<<"2","0","1","4">>>> >>,
        << NA, <<<<"G","a","m","m","a">>>>, NA, <<<<"-","3">>>>, <<<<"n","/","k">>>>,
           <<<<"1","8","9","9">>>>, <<<<"T","u","r","k","e","y">>>>, <<<<"2","0","1","6">>>> >>,
        << <<<<"9","0","0","0","0","0","3">>>>, <<<<" ","D","e","l","t","a"," ">>>>, <<<<"F","e","r","r","y">>>>, <<<<"2">>>>, NA,
           <<<<"2","0","3","6">>>>, NA, <<<<"2","0","1","6">>>> >> >>]

BulkTableRows == 8

\* A table of complete records whose GT, LDT cycle through (10, 5), (20, 15),
\* (30, 25).
TableBulk ==
  [columns |-> << <<"i","m","o">>, <<"n","a","m","e">>, <<"t","y","p","e">>, <<"g","t">>, <<"l","d","t">>, <<"y","e","a","r">> >>,
   rows |->
     [i \in 1..BulkTableRows |->
        CASE i % 3 = 0 -> << <<<<"9","0","0","0","0","1","0">>>>, <<<<"K","i","l","o">>>>, <<<<"T","a","n","k","e","r">>>>,
                             <<<<"1","0">>>>, <<<<"5">>>>, <<<<"2","0","2","0">>>> >>
          [] i % 3 = 1 -> << <<<<"9","0","0","0","0","1","1">>>>, <<<<"L","i","m","a">>>>, <<<<"B","u","l","k","e","r">>>>,
                             <<<<"2","0">>>>, <<<<"1","5">>>>, <<<<"2","0","2","0">>>> >>
          [] OTHER     -> << <<<<"9","0","0","0","0","1","2">>>>, <<<<"M","i","k","e">>>>, <<<<"T","a","n","k","e","r">>>>,
                             <<<<"3","0">>>>, <<<<"2","5",".","0">>>>, <<<<"2","0","2","0">>>> >>]]

TableFraction ==
  [columns |-> << <<"I","M","O">>, <<"B","u","i","l","t">> >>,
   rows |-> << << <<<<"9","0","0","0","0","2","0">>>>, <<<<"1","9","9","0",".","5">>>> >> >>]

\* A record without LDT whose GT is infinite.
TableInf ==
  [columns |-> << <<"I","M","O">>, <<"G","T">>, <<"L","D","T">> >>,
   rows |-> << << <<<<"9","0","0","0","0","3","0">>>>, <<<<"I","n","f","i","n","i","t","y">>>>, NA >> >>]

\* What can lie at the i-th path of FILES.
SourcePool(i) ==
  IF i <= 2 THEN {Absent, Unparseable, Parsed(TableBulk)}
  ELSE IF i <= 4
  THEN {Absent, Parsed(TableBulk), Parsed(TableB), Parsed(TableFraction)}
  ELSE { Absent, Unparseable, Parsed(TableBulk), Parsed(TableB),
         Parsed(TableFraction), Parsed(TableInf) }

(***************************************************************************)
(* The run                                                                 *)
(***************************************************************************)
Idle == Returned(<<>>)

\* main, before its loop over FILES.
Init ==
  /\ pc = "load"
  /\ \E s1 \in SourcePool(1), s2 \in SourcePool(2), s3 \in SourcePool(3),
        s4 \in SourcePool(4), s5 \in SourcePool(5) :
       sources = <<s1, s2, s3, s4, s5>>
  /\ k = 0
  /\ frames = <<>>
  /\ comb = <<>>
  /\ model = None
  /\ imputed = <<>>
  /\ final = <<>>
  /\ raw = NoTable
  /\ unified = Idle
  /\ outcome = "running"

\* if not path.exists(): print(...); continue
FileNotFound ==
  /\ pc = "load" /\ k < Len(FILES)
  /\ sources[k + 1].kind = "absent"
  /\ k' = k + 1
  /\ UNCHANGED <<pc, sources, frames, comb, model, imputed, final, raw, unified, outcome>>

\* pd.read_csv raises on a file it cannot parse; main does not catch it.
ReadFails ==
  /\ pc = "load" /\ k < Len(FILES)
  /\ sources[k + 1].kind = "unparseable"
  /\ pc' = "aborted"
  /\ outcome' = "ParserError"
  /\ UNCHANGED <<sources, k, frames, comb, model, imputed, final, raw, unified>>

\* unify_one raises; main does not catch it.
UnifyRaises ==
  /\ pc = "load" /\ k < Len(FILES)
  /\ sources[k + 1].kind = "table"
  /\ LET df == unify_one(sources[k + 1].table)
     IN  /\ df.error # "none"
         /\ outcome' = df.error
  /\ pc' = "aborted"
  /\ UNCHANGED <<sources, k, frames, comb, model, imputed, final, raw, unified>>

\* df = unify_one(path); frames.append(df)
LoadFile ==
  /\ pc = "load" /\ k < Len(FILES)
  /\ sources[k + 1].kind = "table"
  /\ LET df == unify_one(sources[k + 1].table)
     IN  /\ df.error = "none"
         /\ frames' = Append(frames, df.rows)
  /\ k' = k + 1
  /\ UNCHANGED <<pc, sources, comb, model, imputed, final, raw, unified, outcome>>

\* if not frames: raise SystemExit(...)
NoFilesLoaded ==
  /\ pc = "load" /\ k = Len(FILES)
  /\ frames = <<>>
  /\ pc' = "aborted"
  /\ outcome' = "SystemExit"
  /\ UNCHANGED <<sources, k, frames, comb, model, imputed, final, raw, unified>>

\* comb_files = pd.concat(frames, ignore_index=True)
Concat ==
  /\ pc = "load" /\ k = Len(FILES)
  /\ frames # <<>>
  /\ comb' = concat(frames)
  /\ pc' = "train"
  /\ UNCHANGED <<sources, k, frames, model, imputed, final, raw, unified, outcome>>

\* model = train_ldt_model(comb_files)
Train ==
  /\ pc = "train"
  /\ LET res == train_ldt_model(comb)
     IN  /\ res.error = "none"
         /\ model' = res.model
  /\ pc' = "impute"
  /\ UNCHANGED <<sources, k, frames, comb, imputed, final, raw, unified, outcome>>

\* train_ldt_model raises; main does not catch it.
TrainRaises ==
  /\ pc = "train"
  /\ LET res == train_ldt_model(comb)
     IN  /\ res.error # "none"
         /\ outcome' = res.error
  /\ pc' = "aborted"
  /\ UNCHANGED <<sources, k, frames, comb, model, imputed, final, raw, unified>>

\* comb_files = impute_missing_ldt(comb_files, model)
Impute ==
  /\ pc = "impute"
  /\ LET res == impute_missing_ldt(comb, model)
     IN  /\ res.error = "none"
         /\ imputed' = res.rows
  /\ pc' = "finalize"
  /\ UNCHANGED <<sources, k, frames, comb, model, final, raw, unified, outcome>>

\* impute_missing_ldt raises; main does not catch it.
ImputeRaises ==
  /\ pc = "impute"
  /\ LET res == impute_missing_ldt(comb, model)
     IN  /\ res.error # "none"
         /\ outcome' = res.error
  /\ pc' = "aborted"
  /\ UNCHANGED <<sources, k, frames, comb, model, imputed, final, raw, unified>>

\* dropna, drop_duplicates, sort_values, to_csv
Finalize ==
  /\ pc = "finalize"
  /\ final' = finalize(imputed)
  /\ pc' = "done"
  /\ outcome' = "done"
  /\ UNCHANGED <<sources, k, frames, comb, model, imputed, raw, unified>>

Next ==
  \/ FileNotFound
  \/ ReadFails
  \/ UnifyRaises
  \/ LoadFile
  \/ NoFilesLoaded
  \/ Concat
  \/ Train
  \/ TrainRaises
  \/ Impute
  \/ ImputeRaises
  \/ Finalize

Spec == Init /\ [][Next]_vars

(***************************************************************************)
(* unify_one applied to one raw table                                      *)
(***************************************************************************)
InitUnify ==
  /\ pc = "unify"
  /\ \E h \in HeaderRows, n \in 0..MaxRows :
       \E rs \in [1..n -> RowsUnder(h)] :
         raw = [columns |-> h.columns, rows |-> rs]
  /\ unified = Idle
  /\ sources = <<>>
  /\ k = 0
  /\ frames = <<>>
  /\ comb = <<>>
  /\ model = None
  /\ imputed = <<>>
  /\ final = <<>>
  /\ outcome = "running"

Unify ==
  /\ pc = "unify"
  /\ unified' = unify_one(raw)
  /\ pc' = "unified"
  /\ UNCHANGED <<sources, k, frames, comb, model, imputed, final, raw, outcome>>

NextUnify == Unify

SpecUnify == InitUnify /\ [][NextUnify]_vars

(***************************************************************************)
(* train_ldt_model and impute_missing_ldt applied to one aggregated frame  *)
(***************************************************************************)
InitImpute ==
  /\ pc = "train"
  /\ \E b \in Bulks, m \in 0..MaxFree :
       \E free \in [1..m -> FreeRows] :
         comb = [i \in 1..b.n |-> BulkRow(i, b.shape)] \o free
  /\ model = None
  /\ imputed = <<>>
  /\ final = <<>>
  /\ sources = <<>>
  /\ k = 0
  /\ frames = <<>>
  /\ raw = NoTable
  /\ unified = Idle
  /\ outcome = "running"

NextImpute == Train \/ TrainRaises \/ Impute \/ ImputeRaises

SpecImpute == InitImpute /\ [][NextImpute]_vars

(***************************************************************************)
(* The final steps of main applied to one imputed frame                    *)
(***************************************************************************)
InitFinal ==
  /\ pc = "finalize"
  /\ \E n \in 0..MaxRecs :
       \E rs \in [1..n -> KeyRows] :
         imputed = [i \in 1..n |-> set_ldt(rs[i], Num(i))]
  /\ final = <<>>
  /\ comb = <<>>
  /\ model = None
  /\ sources = <<>>
  /\ k = 0
  /\ frames = <<>>
  /\ raw = NoTable
  /\ unified = Idle
  /\ outcome = "running"

NextFinal == Finalize

SpecFinal == InitFinal /\ [][NextFinal]_vars

(***************************************************************************)
(* Properties of unify_one (SpecUnify)                                     *)
(***************************************************************************)
CaseEq(a, b) == str_upper(a) = str_upper(b)

\* The entries of a field's alias list that equal some header of raw, case and
\* surrounding whitespace of the header aside.
Matching(tgt) ==
  {j \in DOMAIN ALIAS[tgt] :
     \E i \in DOMAIN raw.columns : CaseEq(str_strip(raw.columns[i]), ALIAS[tgt][j])}

FirstAlias(tgt) == ALIAS[tgt][SetMin(Matching(tgt))]

\* The raw cell of row r under the header that equals the first matching alias.
InputCell(tgt, r) ==
  IF Matching(tgt) = {} THEN NA
  ELSE raw.rows[r][CHOOSE i \in DOMAIN raw.columns :
                     CaseEq(str_strip(raw.columns[i]), FirstAlias(tgt))]

Unified == pc = "unified" /\ unified.error = "none"

\* C4: unify_one completes without raising on every parseable table, whatever
\* its headers and cells: it returns one record per raw row, and a cell that
\* fails coercion or a validity rule only makes that field missing.
C4_UnifyNeverRaises ==
  pc = "unified" =>
    /\ unified.error = "none"
    /\ Len(unified.rows) = Len(raw.rows)

\* C5: for every gold field, alias resolution over the normalized headers picks
\* the column that equals the earliest matching entry of the field's ALIAS list,
\* and picks nothing exactly when no entry equals a header; an unmatched field
\* is missing in every record, a matched text field holds the cell of the
\* picked column.
C5_FirstAliasWins ==
  pc = "unified" =>
    \A tgt \in GoldFields :
      LET res   == pick_col(normalize_columns(raw), ALIAS[tgt])
          match == Matching(tgt)
      IN  /\ isna(res) <=> match = {}
          /\ notna(res) => CaseEq(res[1], ALIAS[tgt][SetMin(match)])
          /\ unified.error = "none" =>
               \A r \in DOMAIN unified.rows :
                 /\ match = {} => isna(unified.rows[r][tgt])
                 /\ (match # {} /\ tgt \in StringFields) =>
                      unified.rows[r][tgt] =
                        (IF isna(InputCell(tgt, r)) THEN NA
                         ELSE <<str_strip(InputCell(tgt, r)[1])>>)

C5_Witness ==
  /\ Unified
  /\ \E tgt \in StringFields :
       /\ Cardinality(Matching(tgt)) >= 2
       /\ \E r \in DOMAIN unified.rows : notna(unified.rows[r][tgt])
       \* the earliest alias is not the leftmost header
       /\ ~CaseEq(str_strip(raw.columns[1]), FirstAlias(tgt))

\* C6: in every record unify_one returns, GT and LDT are missing or strictly
\* positive, BUILT is missing or a whole number in 1900..2035 equal to the input
\* value, and an input BUILT outside 1900..2035 is missing.
C6_UnifiedValuesValid ==
  Unified =>
    \A r \in DOMAIN unified.rows :
      LET rec   == unified.rows[r]
          built == to_numeric(InputCell("BUILT", r))
      IN  /\ \A f \in {"GT", "LDT"} :
               isna(rec[f]) \/ RLt(Num(0), rec[f])
          /\ notna(rec["BUILT"]) =>
               /\ rec["BUILT"][1] \in 1900..2035
               /\ built = <<rec["BUILT"][1], 1>>
          /\ (notna(built) /\ (RLt(built, <<1900, 1>>) \/ RLt(<<2035, 1>>, built))) =>
               isna(rec["BUILT"])

C6_Witness ==
  /\ Unified
  /\ \E r \in DOMAIN unified.rows :
       /\ notna(unified.rows[r]["BUILT"])
       /\ notna(to_numeric(InputCell("LDT", r)))
       /\ isna(unified.rows[r]["LDT"])

(***************************************************************************)
(* Properties of train_ldt_model and impute_missing_ldt (SpecImpute)       *)
(***************************************************************************)
Imputed == pc = "finalize"

\* The run ended inside train_ldt_model: an exception and no model.
TrainAborted == pc = "aborted" /\ outcome = "ValueError" /\ model = None

\* The records with GT and LDT both present and both strictly positive.
ValidPairs(df) ==
  {i \in DOMAIN df :
     /\ notna(df[i]["GT"]) /\ notna(df[i]["LDT"])
     /\ df[i]["GT"][1] > 0 /\ df[i]["LDT"][1] > 0}

\* C1: in the frame impute_missing_ldt returns every record has LDT present,
\* except exactly when no record had LDT present on entry; then every LDT stays
\* missing, and neither training nor imputation raises.
C1_LdtPresentUnlessNoneWas ==
  /\ Imputed =>
       /\ Len(imputed) = Len(comb)
       /\ IF \E i \in DOMAIN comb : notna(comb[i]["LDT"])
          THEN \A i \in DOMAIN imputed : notna(imputed[i]["LDT"])
          ELSE \A i \in DOMAIN imputed : isna(imputed[i]["LDT"])
  /\ pc = "aborted" => \E i \in DOMAIN comb : notna(comb[i]["LDT"])

C1_Witness ==
  /\ Imputed
  /\ \E i \in DOMAIN comb :
       /\ isna(comb[i]["LDT"]) /\ isna(comb[i]["GT"]) /\ isna(comb[i]["TYPE"])
       /\ notna(imputed[i]["LDT"])

\* The median of the values of the records that have the TYPE of record i.
TypeMedian(values, i) ==
  median([j \in DOMAIN comb |->
            IF comb[j]["TYPE"] = comb[i]["TYPE"] THEN values[j] ELSE NA])

\* The LDT column after the regression tier, as the cascade is specified.
AfterRegression ==
  Frame([i \in DOMAIN comb |->
           IF notna(comb[i]["LDT"]) THEN comb[i]["LDT"]
           ELSE IF model # None /\ notna(comb[i]["GT"])
                THEN LET y == RAdd(RMul(model[1].coef, comb[i]["GT"]),
                                   model[1].intercept)
                     IN  IF y[1] < 0 THEN <<0, 1>> ELSE y
                ELSE NA])

\* The column after the TYPE median tier applied to a column.
AfterTypeMedian(values) ==
  Frame([i \in DOMAIN comb |->
           IF notna(values[i]) THEN values[i]
           ELSE IF notna(comb[i]["TYPE"]) THEN TypeMedian(values, i)
           ELSE NA])

\* The column after the overall median tier applied to a column.
AfterOverallMedian(values) ==
  LET overall == median(values)
  IN  Frame([i \in DOMAIN comb |-> IF notna(values[i]) THEN values[i] ELSE overall])

\* C7: train_ldt_model returns a model exactly when at least 30 records have GT
\* and LDT both present and strictly positive: with fewer it returns None, with
\* 30 or more it returns a model and does not raise; without a model every LDT
\* that imputation fills is the median of the record's TYPE group or the
\* overall median, never a prediction.
C7_ModelNeedsThirtyPairs ==
  /\ pc \in {"impute", "finalize"} =>
       (model # None <=> Cardinality(ValidPairs(comb)) >= 30)
  /\ Cardinality(ValidPairs(comb)) >= 30 => ~TrainAborted
  /\ (Imputed /\ model = None) =>
       LET given   == Frame([j \in DOMAIN comb |-> comb[j]["LDT"]])
           overall == median(AfterTypeMedian(given))
       IN  \A i \in DOMAIN comb :
             (isna(comb[i]["LDT"]) /\ notna(imputed[i]["LDT"])) =>
               \/ notna(comb[i]["TYPE"]) /\ imputed[i]["LDT"] = TypeMedian(given, i)
               \/ imputed[i]["LDT"] = overall

\* C8: imputation applies its tiers in order, each writing only records whose LDT
\* is still missing: an LDT that was present is kept; else the prediction
\* max(0, slope * GT + intercept) if a model exists and GT is present; else the
\* median of the TYPE group after the regression tier; else the median of all
\* LDT present after both tiers.  No other field changes, nor the number or
\* order of the records.
C8_TiersInOrder ==
  Imputed =>
    LET expected == AfterOverallMedian(AfterTypeMedian(AfterRegression))
    IN  /\ Len(imputed) = Len(comb)
        /\ \A i \in DOMAIN comb :
             imputed[i] = [comb[i] EXCEPT !["LDT"] = expected[i]]

C8_Witness ==
  /\ Imputed
  /\ model # None
  /\ \E i \in DOMAIN comb :
       isna(comb[i]["LDT"]) /\ notna(comb[i]["GT"]) /\ notna(imputed[i]["LDT"])
  /\ \E i \in DOMAIN comb :
       /\ isna(comb[i]["LDT"]) /\ isna(comb[i]["GT"]) /\ notna(comb[i]["TYPE"])
       /\ notna(imputed[i]["LDT"])

\* C10: through the whole pipeline, after unification, after imputation and in
\* the final output, the LDT of every record is missing or strictly positive.
C10_LdtMissingOrPositive ==
  \A df \in {comb, imputed, final} :
    \A i \in DOMAIN df : isna(df[i]["LDT"]) \/ df[i]["LDT"][1] > 0

(***************************************************************************)
(* Properties of the final steps of main (SpecFinal)                       *)
(***************************************************************************)
SameTriple(a, b) ==
  a["IMO"] = b["IMO"] /\ a["NAME"] = b["NAME"] /\ a["YEAR"] = b["YEAR"]

\* C2: in the final output every record has an IMO and no two records share
\* (IMO, NAME, YEAR), a missing YEAR or NAME counting as equal to a missing one;
\* of the input records with an IMO that share a triple exactly one survives,
\* the first in input order.
C2_OneFirstRecordPerKey ==
  pc = "done" =>
    /\ \A p \in DOMAIN final : notna(final[p]["IMO"])
    /\ \A p, q \in DOMAIN final : p # q => ~SameTriple(final[p], final[q])
    /\ \A i \in DOMAIN imputed :
         notna(imputed[i]["IMO"]) =>
           LET group == {j \in DOMAIN imputed : SameTriple(imputed[j], imputed[i])}
           IN  /\ Cardinality({p \in DOMAIN final :
                                 SameTriple(final[p], imputed[i])}) = 1
               /\ \E p \in DOMAIN final : final[p] = imputed[SetMin(group)]

C2_Witness ==
  /\ pc = "done"
  /\ \E i, j \in DOMAIN imputed :
       /\ i < j
       /\ notna(imputed[i]["IMO"]) /\ isna(imputed[i]["YEAR"])
       /\ SameTriple(imputed[i], imputed[j])
       /\ \E p \in DOMAIN final : final[p] = imputed[i]
  /\ \E i \in DOMAIN imputed : isna(imputed[i]["IMO"])

\* C9: dropping records without IMO, deduplicating and sorting is idempotent:
\* applied to its own output it returns the same records in the same order, also
\* when records tie on every sort key or have missing sort keys.
C9_FinalizeIdempotent == pc = "done" => finalize(final) = final

C9_Witness ==
  /\ pc = "done"
  /\ \E p, q \in DOMAIN final :
       /\ p < q
       /\ \A j \in DOMAIN SORT_KEYS : final[p][SORT_KEYS[j]] = final[q][SORT_KEYS[j]]
       /\ isna(final[p]["YEAR"])
  /\ \E p \in DOMAIN final : notna(final[p]["YEAR"])

(***************************************************************************)
(* Properties of the run (Spec)                                            *)
(***************************************************************************)
Unifies(i) ==
  sources[i].kind = "table" /\ unify_one(sources[i].table).error = "none"

\* C3: the run aborts if and only if no source yields a unified table; a source
\* whose path does not exist or whose file cannot be parsed is skipped and the
\* remaining sources are still loaded.
C3_AbortsOnlyWithoutSources ==
  /\ pc = "aborted" => \A i \in DOMAIN sources : ~Unifies(i)
  /\ pc \in {"train", "impute", "finalize", "done"} =>
       /\ \E i \in DOMAIN sources : Unifies(i)
       /\ Len(frames) = Cardinality({i \in DOMAIN sources : Unifies(i)})

====
